---- MODULE Spec2Model ----
(***************************************************************************)
(* Construction of the lithium-ion parameter hierarchy                     *)
(* (pybamm/parameters/lithium_ion_parameters.py) and the build lifecycle   *)
(* of the SEI growth submodel                                              *)
(* (pybamm/models/submodels/interface/sei/sei_growth.py).                  *)
(*                                                                         *)
(* Python statements are modelled as records                               *)
(*   [line, reads, binds, adds, sets]                                      *)
(* executed in source order by Exec: a read of an unbound name, of a key   *)
(* that is not in the variable pool, or of an attribute that was never     *)
(* assigned raises and ends the handler at that line.                      *)
(***************************************************************************)
EXTENDS Integers, Sequences, FiniteSets, TLC

\* Largest number of pool keys that may be absent from the pool handed to
\* the submodel.
MaxMissing == 2

VARIABLES
    options,    \* hierarchy options: "working electrode", "particle phases"
    ppc,        \* position inside LithiumIonParameters.__init__
    di,         \* index of the domain being processed (loop at line 99)
    pi,         \* index of the phase slot being processed (loop at line 264)
    kind,       \* node -> class of the object held by that node
    attrs,      \* node -> attribute names assigned on it so far
    calls,      \* node -> number of _set_dimensional_parameters calls
    done,       \* nodes whose _set_dimensional_parameters has returned
    dlocals,    \* local names of the running domain _set_dimensional_parameters
    perr,       \* exception raised by the construction: [type, line]
    hreads,     \* attribute reads made by the _set_dimensional_parameters so far
    pin,        \* values the parameter set supplies: eps_s per phase, c_init
    val,        \* values of the derived quantities assigned so far
    ucall       \* the last call of ParticleLithiumIonParameters.U from outside

hvars == <<options, ppc, di, pi, kind, attrs, calls, done, dlocals, perr, hreads,
           pin, val, ucall>>

VARIABLES
    spc,                \* "none", "constructed" or "failed"
    SEI,                \* options["SEI"]
    reaction_loc,       \* self.reaction_loc
    cracks,             \* the cracks flag given to the constructor
    variables,          \* keys of the shared variable pool
    hist,               \* lifecycle callables invoked so far, in order
    serr,               \* exception raised by the submodel: [type, line]
    slocals,            \* names bound when the last callable ended
    j_src,              \* pool key the current j was read from
    L_inner_expr,       \* form of L_inner after get_fundamental_variables
    rhs,                \* self.rhs
    initial_conditions  \* self.initial_conditions

svars == <<spc, SEI, reaction_loc, cracks, variables, hist, serr, slocals,
           j_src, L_inner_expr, rhs, initial_conditions>>

VARIABLES
    epc,        \* electrolyte diffusion submodel: "none", "built" or "failed"
    em,         \* its rhs, initial_conditions, boundary_conditions, variables
    eerr        \* exception raised by its constructor: [type, line]

evars == <<epc, em, eerr>>

vars == <<hvars, svars, evars>>

----------------------------------------------------------------------------
(* Python statements and their execution *)

Loc(n)      == [k |-> "local",  on |-> "", n |-> n]
Glob(n)     == [k |-> "global", on |-> "", n |-> n]
Key(n)      == [k |-> "key",    on |-> "", n |-> n]
Attr(on, n) == [k |-> "attr",   on |-> on, n |-> n]

Stmt(line, reads, binds, adds, sets) ==
    [line |-> line, reads |-> reads, binds |-> binds, adds |-> adds,
     sets |-> sets]

\* self.<a> = ... for every a in as, on node
Sets(node, as) == {<<node, a>> : a \in as}

\* Names the module binds at import time (sei_growth.py lines 4-5).
ModuleGlobals == {"pybamm", "BaseModel"}

NoErr == [type |-> "none", line |-> 0]

\* A NullParameters placeholder answers every attribute query (with zero).
NullAnswers(kd, node) == kd[node] = "Null"

\* Can the read be evaluated in execution state st?
ReadOK(r, st) ==
    CASE r.k = "local"  -> r.n \in st.locals
      [] r.k = "global" -> r.n \in ModuleGlobals
      [] r.k = "key"    -> r.n \in st.pool
      [] r.k = "attr"   -> NullAnswers(st.kind, r.on) \/ r.n \in st.attrs[r.on]

\* The exception Python raises for a read that cannot be evaluated.
ErrOf(r) ==
    CASE r.k = "local"  -> "UnboundLocalError"
      [] r.k = "global" -> "NameError"
      [] r.k = "key"    -> "KeyError"
      [] r.k = "attr"   -> "AttributeError"

\* Index of the first read of the sequence that raises, 0 when none does.
FirstBad(reads, st) ==
    LET bad == {i \in 1..Len(reads) : ~ReadOK(reads[i], st)}
    IN IF bad = {} THEN 0 ELSE CHOOSE i \in bad : \A j \in bad : i <= j

\* The attribute reads among the first k reads of a statement; the last of
\* them is the one that raised when ok is FALSE.
AttrReads(reads, k, ok) ==
    {[on |-> reads[i].on, n |-> reads[i].n, ok |-> (i < k \/ ok)] :
        i \in {j \in 1..k : reads[j].k = "attr"}}

ApplyStmt(s, st) ==
    [st EXCEPT !.locals = @ \cup s.binds,
               !.rd     = @ \cup AttrReads(s.reads, Len(s.reads), TRUE),
               !.pool   = @ \cup s.adds,
               !.attrs  = [n \in DOMAIN @ |->
                              @[n] \cup {w[2] : w \in {v \in s.sets : v[1] = n}}]]

\* Run the statements from index i on, stopping at the first that raises.
RECURSIVE ExecFrom(_, _, _)
ExecFrom(stmts, i, st) ==
    IF i > Len(stmts) THEN st
    ELSE LET s   == stmts[i]
             bad == FirstBad(s.reads, st)
         IN IF bad # 0
            THEN [st EXCEPT !.err = [type |-> ErrOf(s.reads[bad]),
                                     line |-> s.line],
                            !.rd  = @ \cup AttrReads(s.reads, bad, FALSE)]
            ELSE ExecFrom(stmts, i + 1, ApplyStmt(s, st))

Exec(stmts, st) == ExecFrom(stmts, 1, st)

ExecState(locals, pool, at, kd) ==
    [locals |-> locals, pool |-> pool, attrs |-> at, kind |-> kd, err |-> NoErr,
     rd |-> {}]

----------------------------------------------------------------------------
(* The parameter hierarchy *)

\* A dictionary built with the separator entered first.
DomainOrder_SeparatorFirst == <<"separator", "negative", "positive">>

\* Insertion order of self.domain_params, lines 50-54.
DomainOrder == <<"negative", "separator", "positive">>
PhaseOrder  == <<"primary", "secondary">>

DomNode(domain) ==
    CASE domain = "negative"  -> "n"
      [] domain = "separator" -> "s"
      [] domain = "positive"  -> "p"

PhaseNode(domain, phase) ==
    DomNode(domain) \o (IF phase = "primary" THEN ".prim" ELSE ".sec")

DomainNodes == {DomNode(DomainOrder[i]) : i \in 1..3}
PhaseNodes  == {PhaseNode(DomainOrder[i], PhaseOrder[j]) : i \in 1..3, j \in 1..2}
Nodes       == {"top"} \cup DomainNodes \cup PhaseNodes

ElectrodeDomains == {"negative", "positive"}

ElectrodeSlots ==
    {PhaseNode(d, PhaseOrder[j]) : d \in ElectrodeDomains, j \in 1..2}

WorkingElectrodes == {"both", "negative", "positive"}
PhaseCounts       == {0, 1, 2}

\* The values of "particle phases" the options accept for an electrode.
SupportedPhaseCounts == {1, 2}

\* options.electrode_types: the electrode that is not the working one in a
\* half-cell is a planar lithium-metal counter electrode.
electrode_types(opts, domain) ==
    IF opts.we = "both" \/ opts.we = domain THEN "porous" ELSE "planar"

\* options.whole_cell_domains, in through-cell order.
whole_cell_domains(opts) ==
    (IF electrode_types(opts, "negative") = "porous" THEN <<"negative">> ELSE <<>>)
    \o <<"separator">> \o
    (IF electrode_types(opts, "positive") = "porous" THEN <<"positive">> ELSE <<>>)

\* A variant that fills the slots by the count alone: no real phase for a
\* count of 0.
DomainInit_ByCount(opts, domain, phase) ==
    IF domain # "separator"
    THEN IF phase = "primary"
         THEN IF opts.phases[domain] >= 1 THEN "Particle" ELSE "Null"
         ELSE IF opts.phases[domain] >= 2 THEN "Particle" ELSE "Null"
    ELSE "Null"

\* DomainLithiumIonParameters.__init__: the class put in each phase slot.
DomainInit(opts, domain, phase) ==
    IF domain # "separator"
    THEN IF phase = "primary" THEN "Particle"
         ELSE IF opts.phases[domain] >= 2 THEN "Particle" ELSE "Null"
    ELSE "Null"

TopPrimitives ==
    {"R", "F", "k_b", "q_e", "T_ref", "T_init", "T_amb", "L_x", "L", "L_y",
     "L_z", "r_inner", "r_outer", "A_cc", "A_cooling", "V_cell",
     "current_with_time", "current_density_with_time", "Q",
     "n_electrodes_parallel", "n_cells", "voltage_low_cut",
     "voltage_high_cut"}

\* LithiumIonParameters._set_dimensional_parameters, lines 66-96.
TopBeginStmts == <<Stmt(67, <<>>, {}, {}, Sets("top", TopPrimitives))>>

RECURSIVE EpsReads(_)
EpsReads(doms) ==
    IF doms = <<>> THEN <<>>
    ELSE <<Attr(DomNode(Head(doms)), "epsilon_init")>> \o EpsReads(Tail(doms))

\* LithiumIonParameters._set_dimensional_parameters, lines 102-143.
TopAggregateStmts(opts) == <<
    Stmt(103, <<>>, {}, {}, Sets("top", {"c_e_typ"})),
    Stmt(105, EpsReads(whole_cell_domains(opts)), {}, {},
         Sets("top", {"epsilon_init"})),
    Stmt(113, <<>>, {}, {},
         Sets("top", {"V_bar_plated_Li", "c_Li_typ", "c_plated_Li_0",
                      "c_e_init", "alpha_T_cell"})),
    Stmt(136, <<Attr("top", "epsilon_init"), Attr("top", "c_e_typ")>>,
         {"c_e_av_init"}, {}, {}),
    Stmt(137, <<Loc("c_e_av_init"), Attr("top", "L_x"), Attr("top", "A_cc")>>,
         {}, {}, Sets("top", {"n_Li_e_init"})),
    Stmt(139, <<Attr("n", "n_Li_init"), Attr("p", "n_Li_init")>>,
         {}, {}, Sets("top", {"n_Li_particles_init"})),
    Stmt(140, <<Attr("top", "n_Li_particles_init"), Attr("top", "n_Li_e_init")>>,
         {}, {}, Sets("top", {"n_Li_init"})),
    Stmt(143, <<Attr("p.prim", "U_init"), Attr("n.prim", "U_init")>>,
         {}, {}, Sets("top", {"ocv_init"})) >>

\* A variant that assigns an electrode's thickness L only after the loop
\* over its phases.
DomainBeginStmts_LateL(domain) ==
    LET d == DomNode(domain) IN
    IF domain = "separator"
    THEN << Stmt(241, <<Attr("top", "L_x")>>, {"x"}, {}, {}),
            Stmt(242, <<Loc("x")>>, {}, {}, Sets(d, {"epsilon_init"})),
            Stmt(245, <<Attr(d, "epsilon_init")>>, {}, {},
                 Sets(d, {"epsilon_inactive"})),
            Stmt(246, <<>>, {}, {}, Sets(d, {"b_e", "L"})) >>
    ELSE << Stmt(250, <<Attr("top", "L_x")>>, {"x"}, {}, {}),
            Stmt(261, <<>>, {}, {}, Sets(d, {"L_cc"})) >>

\* DomainLithiumIonParameters._set_dimensional_parameters, lines 237-262:
\* the separator's whole body, or an electrode's statements before the
\* loop over its phases.
DomainBeginStmts(domain) ==
    LET d == DomNode(domain) IN
    IF domain = "separator"
    THEN << Stmt(241, <<Attr("top", "L_x")>>, {"x"}, {}, {}),
            Stmt(242, <<Loc("x")>>, {}, {}, Sets(d, {"epsilon_init"})),
            Stmt(245, <<Attr(d, "epsilon_init")>>, {}, {},
                 Sets(d, {"epsilon_inactive"})),
            Stmt(246, <<>>, {}, {}, Sets(d, {"b_e", "L"})) >>
    ELSE << Stmt(250, <<Attr("top", "L_x")>>, {"x"}, {}, {}),
            Stmt(261, <<>>, {}, {}, Sets(d, {"L_cc", "L"})) >>

DomainMechanical ==
    {"b_e", "b_s", "C_dl", "nu", "E", "c_0", "Omega", "l_cr_0", "w_cr",
     "rho_cr", "b_cr", "m_cr", "Eac_cr"}

\* DomainLithiumIonParameters._set_dimensional_parameters, lines 267-343:
\* an electrode's statements after the loop over its phases.
DomainAggregateStmts(opts, domain) ==
    LET d    == DomNode(domain)
        prim == PhaseNode(domain, "primary")
        sec  == PhaseNode(domain, "secondary")
    IN << Stmt(268, <<>>, {}, {},
               Sets(d, {"L_tab", "Centre_y_tab", "Centre_z_tab", "A_tab"})),
          Stmt(274, <<>>, {}, {}, Sets(d, {"sigma_cc"})) >>
       \o (IF electrode_types(opts, domain) = "porous"
           THEN << Stmt(278, <<Loc("x")>>, {}, {}, Sets(d, {"epsilon_init"})),
                   Stmt(281, <<Attr(prim, "epsilon_s"), Attr(sec, "epsilon_s")>>,
                        {"epsilon_s_tot"}, {}, {}),
                   Stmt(282, <<Attr(d, "epsilon_init"), Loc("epsilon_s_tot")>>,
                        {}, {}, Sets(d, {"epsilon_inactive"})),
                   Stmt(284, <<Attr(prim, "cap_init"), Attr(sec, "cap_init")>>,
                        {}, {}, Sets(d, {"cap_init"})) >>
           ELSE <<>>)
       \o << Stmt(290, <<Attr(prim, "n_Li_init"), Attr(sec, "n_Li_init")>>,
                  {}, {}, Sets(d, {"n_Li_init"})),
             Stmt(293, <<>>, {}, {}, Sets(d, DomainMechanical)),
             Stmt(321, <<Attr(d, "Omega"), Attr("top", "R"), Attr(d, "E"),
                         Attr(d, "nu")>>, {}, {}, Sets(d, {"theta"})),
             Stmt(324, <<>>, {}, {},
                  Sets(d, {"m_LAM", "beta_LAM", "stress_critical",
                           "beta_LAM_sei", "u_init", "beta_utilisation"})) >>

\* Attributes assigned in the "SEI parameters" block, lines 383-435.
ParticleSEIAttrs ==
    {"V_bar_inner", "V_bar_outer", "m_sei", "R_sei", "D_sol", "c_sol",
     "U_inner", "U_outer", "kappa_inner", "D_li", "c_li_0", "L_inner_0_dim",
     "L_outer_0_dim", "L_sei_0_dim", "E_sei", "c_ec_0_dim", "D_ec_dim",
     "k_sei_dim", "U_sei_dim"}

\* ParticleLithiumIonParameters._set_dimensional_parameters, lines 366-506
\* (with the reads of U and dUdT, lines 539-575, made by line 506).
ParticleStmts(opts, domain, phase) ==
    LET me == PhaseNode(domain, phase)
        d  == DomNode(domain)
    IN << Stmt(373, <<>>, {}, {}, Sets(me, {"ne", "mhc_lambda", "alpha_bv"})) >>
       \o (IF domain = "negative"
           THEN << Stmt(385, <<>>, {}, {}, Sets(me, ParticleSEIAttrs)) >>
           ELSE <<>>)
       \o (IF electrode_types(opts, domain) = "planar"
           THEN << Stmt(438, <<>>, {}, {}, Sets(me, {"n_Li_init", "U_init_dim"})) >>
           ELSE <<
             Stmt(442, <<Attr("top", "L_x")>>, {"x"}, {}, {}),
             Stmt(451, <<>>, {"r"}, {}, {}),
             Stmt(468, <<>>, {}, {},
                  Sets(me, {"R", "R_typ", "c_max", "R_min", "R_max", "sd_a",
                            "f_a_dist"})),
             Stmt(482, <<Loc("x")>>, {}, {}, Sets(me, {"epsilon_s"})),
             Stmt(486, <<Loc("r"), Loc("x")>>, {}, {}, Sets(me, {"c_init"})),
             Stmt(495, <<Attr(me, "c_init")>>, {}, {}, Sets(me, {"c_init_av"})),
             Stmt(496, <<Attr(me, "c_init_av"), Attr(me, "c_max")>>, {}, {},
                  Sets(me, {"sto_init_av"})),
             Stmt(497, <<Attr(me, "epsilon_s"), Attr(me, "c_init")>>,
                  {"eps_c_init_av"}, {}, {}),
             Stmt(500, <<Loc("eps_c_init_av"), Attr(d, "L"), Attr("top", "A_cc")>>,
                  {}, {}, Sets(me, {"n_Li_init"})),
             Stmt(502, <<Attr(me, "epsilon_s")>>, {"eps_s_av"}, {}, {}),
             Stmt(503, <<Loc("eps_s_av"), Attr(d, "L"), Attr(me, "c_max"),
                         Attr("top", "F")>>, {}, {}, Sets(me, {"elec_loading"})),
             Stmt(504, <<Attr(me, "elec_loading"), Attr("top", "A_cc")>>, {}, {},
                  Sets(me, {"cap_init"})),
             Stmt(506, <<Attr(me, "sto_init_av"), Attr("top", "T_init"),
                         Attr(me, "c_max"), Attr("top", "T_ref")>>, {}, {},
                  Sets(me, {"U_init"})) >>)

----------------------------------------------------------------------------
(* Values of the derived quantities *)
(* A stoichiometry s stands for s * tol, with tol the "U__c_s" tolerance;  *)
(* concentrations are counted in units of tol * c_max, lithium inventories *)
(* in units of that concentration times m3, capacities in units of         *)
(* F / 3600; a quotient is a pair <<num, den>>.                            *)

\* The stoichiometry 1, in units of tol.
StoOne == 4
\* Largest active-material volume fraction a phase is given.
MaxEps == 2

\* What the parameter set supplies: each phase's (uniform) active-material
\* volume fraction and the (uniform) initial concentration.
ParamInputs == [eps_s : [ElectrodeSlots -> 1..MaxEps], c_init : 0..StoOne]

DefaultInputs == [eps_s |-> [n \in ElectrodeSlots |-> 1], c_init |-> 1]

\* Lines 66-97 and 261: the geometry and thermal values of the cell.
CellInputs ==
    [A_cc |-> 2, L |-> [negative |-> 1, positive |-> 3],
     T_ref |-> 5, T_init |-> 6]

NoExpr    == [op |-> "unset"]
Scalar(v) == [op |-> "Scalar", value |-> v]

NoValues ==
    [n_Li_init |-> [n \in Nodes |-> 0],
     cap_init  |-> [n \in Nodes |-> 0],
     U_init    |-> [n \in PhaseNodes |-> NoExpr],
     U_init_dim |-> [n \in PhaseNodes |-> NoExpr],
     n_Li_particles_init |-> 0,
     ocv_init  |-> NoExpr]

NoCall == [op |-> "none"]

Minimum(a, b) == IF a <= b THEN a ELSE b
Maximum(a, b) == IF a >= b THEN a ELSE b

\* 1 / x for x in units of tol, against the stoichiometry 1.
Recip(x) == <<StoOne, x>>
QAdd(p, q) == <<p[1] * q[2] + q[1] * p[2], p[2] * q[2]>>

\* Lines 564-576: the entropic change, a function parameter of sto.
dUdT(me, sto) == [op |-> "dUdT", of |-> me, sto |-> sto]

\* A variant that hands the stoichiometry on as it was passed in.
U_Unclamped(me, sto0, T) ==
    LET sto  == sto0
        corr == QAdd(Recip(sto), Recip(sto - StoOne))
    IN [op |-> "U", of |-> me, ocp_sto |-> sto, corr |-> corr,
        dT |-> T - CellInputs.T_ref, dudt |-> dUdT(me, sto)]

\* Lines 539-562: the open-circuit potential as the expression
\*   OCP(sto) + 1e-6 * corr + dT * dUdT(sto)
\* built from the stoichiometry after line 546 has rebound sto.
U(me, sto0, T) ==
    LET tol  == 1
        sto  == Maximum(Minimum(sto0, StoOne - tol), tol)
        corr == QAdd(Recip(sto), Recip(sto - StoOne))
    IN [op |-> "U", of |-> me, ocp_sto |-> sto, corr |-> corr,
        dT |-> T - CellInputs.T_ref, dudt |-> dUdT(me, sto)]

\* What a NullParameters placeholder answers for the derived quantity a.
NullValue(a) == 0

\* phase.<a> as the generator of lines 281-290 reads it from a slot.
SlotValue(node, a) == IF kind[node] = "Null" THEN NullValue(a) ELSE val[a][node]

\* Python's sum(): 0 + xs[1] + xs[2] + ...
RECURSIVE PySumFrom(_, _, _)
PySumFrom(xs, i, acc) ==
    IF i > Len(xs) THEN acc ELSE PySumFrom(xs, i + 1, acc + xs[i])

\* A variant whose sum leaves out the first slot.
PySum_SkipFirst(xs) == PySumFrom(xs, 2, 0)

PySum(xs) == PySumFrom(xs, 1, 0)

\* Lines 437-440 and 495-506: the values a phase assigns, for the
\* attributes new that its run has assigned.
PhaseValues(domain, me, new) ==
    LET planar == electrode_types(options, domain) = "planar"
        c_init_av     == pin.c_init
        sto_init_av   == pin.c_init
        c_max         == StoOne
        eps_c_init_av == pin.eps_s[me] * pin.c_init
        eps_s_av      == pin.eps_s[me]
        L             == CellInputs.L[domain]
    IN [val EXCEPT
          !.n_Li_init[me] =
              IF "n_Li_init" \notin new THEN @
              ELSE IF planar THEN 0
              ELSE eps_c_init_av * L * CellInputs.A_cc,
          !.cap_init[me] =
              IF "cap_init" \notin new THEN @
              ELSE eps_s_av * L * c_max * CellInputs.A_cc,
          !.U_init_dim[me] =
              IF "U_init_dim" \notin new THEN @ ELSE Scalar(0),
          !.U_init[me] =
              IF "U_init" \notin new THEN @
              ELSE U(me, sto_init_av, CellInputs.T_init)]

\* The phase slots of a domain, in the order of phase_params.values().
SlotsOf(domain) == [j \in 1..2 |-> PhaseNode(domain, PhaseOrder[j])]

\* Lines 284 and 290: the sums over the phase slots.
DomainValues(domain, new) ==
    LET d == DomNode(domain) IN
    [val EXCEPT
       !.cap_init[d] =
           IF "cap_init" \notin new THEN @
           ELSE PySum([j \in 1..2 |-> SlotValue(SlotsOf(domain)[j], "cap_init")]),
       !.n_Li_init[d] =
           IF "n_Li_init" \notin new THEN @
           ELSE PySum([j \in 1..2 |-> SlotValue(SlotsOf(domain)[j], "n_Li_init")])]

\* Lines 139 and 143.
TopValues(new) ==
    [val EXCEPT
       !.n_Li_particles_init =
           IF "n_Li_particles_init" \notin new THEN @
           ELSE val.n_Li_init["n"] + val.n_Li_init["p"],
       !.ocv_init =
           IF "ocv_init" \notin new THEN @
           ELSE [op |-> "Sub", left |-> val.U_init["p.prim"],
                 right |-> val.U_init["n.prim"]]]

----------------------------------------------------------------------------
(* Construction of LithiumIonParameters, one action per method body *)

HInit ==
    /\ options \in [we : WorkingElectrodes,
                    phases : [{"negative", "positive"} -> PhaseCounts]]
    /\ ppc = "new"
    /\ di = 0
    /\ pi = 0
    /\ kind = [n \in Nodes |-> "Unbuilt"]
    /\ attrs = [n \in Nodes |-> {}]
    /\ calls = [n \in Nodes |-> 0]
    /\ done = {}
    /\ dlocals = {}
    /\ perr = NoErr
    /\ hreads = {}
    /\ val = NoValues
    /\ ucall = NoCall

\* LithiumIonParameters.__init__, lines 38-54: build the three domain
\* objects, each building its two phase slots.
LithiumIonParameters__init__ ==
    /\ ppc = "new"
    /\ kind' = [n \in Nodes |->
                  IF n = "top" THEN "LithiumIonParameters"
                  ELSE IF n \in DomainNodes THEN "Domain"
                  ELSE LET i == CHOOSE i \in 1..3 :
                                   \E j \in 1..2 :
                                       PhaseNode(DomainOrder[i], PhaseOrder[j]) = n
                           j == CHOOSE j \in 1..2 :
                                   PhaseNode(DomainOrder[i], PhaseOrder[j]) = n
                       IN DomainInit(options, DomainOrder[i], PhaseOrder[j])]
    /\ ppc' = "constructed"
    /\ UNCHANGED <<options, di, pi, attrs, calls, done, dlocals, perr, hreads>>
    /\ UNCHANGED <<pin, val, ucall>>
    /\ UNCHANGED svars
    /\ UNCHANGED evars

\* The outcome of running stmts on the hierarchy as it is now.
HRun(stmts, locals) == Exec(stmts, ExecState(locals, {}, attrs, kind))

\* The reads rd made by node by, each with whether its owner had started
\* and had returned from its own _set_dimensional_parameters at that time.
ReadsBy(by, rd) ==
    {[by |-> by, on |-> x.on, n |-> x.n, ok |-> x.ok,
      started |-> (calls[x.on] >= 1 \/ x.on = by),
      returned |-> (x.on \in done)] : x \in rd}

\* Line 57 and lines 64-99: the top level starts its
\* _set_dimensional_parameters and reaches the loop over the domains.
TopSetDimensionalBegin ==
    /\ ppc = "constructed"
    /\ LET r == HRun(TopBeginStmts, {}) IN
        /\ attrs' = r.attrs
        /\ perr' = r.err
        /\ hreads' = hreads \cup ReadsBy("top", r.rd)
        /\ ppc' = IF r.err.type = "none" THEN "dom_enter" ELSE "failed"
    /\ UNCHANGED <<pin, val, ucall>>
    /\ calls' = [calls EXCEPT !["top"] = @ + 1]
    /\ di' = 1
    /\ UNCHANGED <<options, pi, kind, done, dlocals>>
    /\ UNCHANGED svars
    /\ UNCHANGED evars

\* Line 100: the next domain of the loop starts its
\* _set_dimensional_parameters; the separator runs it to its return at
\* line 248, an electrode reaches the loop over its phases at line 264.
DomainSetDimensionalBegin ==
    /\ ppc = "dom_enter"
    /\ di \in 1..3
    /\ LET domain == DomainOrder[di]
           d == DomNode(domain)
           r == HRun(DomainBeginStmts(domain), {"main", "domain", "Domain"})
       IN
        /\ calls' = [calls EXCEPT ![d] = @ + 1]
        /\ attrs' = r.attrs
        /\ perr' = r.err
        /\ hreads' = hreads \cup ReadsBy(d, r.rd)
        /\ IF r.err.type # "none"
           THEN /\ ppc' = "failed"
                /\ UNCHANGED <<di, pi, done, dlocals>>
           ELSE IF domain = "separator"
           THEN /\ done' = done \cup {d}
                /\ di' = di + 1
                /\ ppc' = "dom_enter"
                /\ UNCHANGED <<pi, dlocals>>
           ELSE /\ dlocals' = r.locals
                /\ pi' = 1
                /\ ppc' = "dom_phases"
                /\ UNCHANGED <<di, done>>
    /\ UNCHANGED <<options, kind>>
    /\ UNCHANGED <<pin, val, ucall>>
    /\ UNCHANGED svars
    /\ UNCHANGED evars

\* Line 265: the next phase slot of the current domain runs its
\* _set_dimensional_parameters (a no-op for a NullParameters placeholder).
PhaseSetDimensional ==
    /\ ppc = "dom_phases"
    /\ pi \in 1..2
    /\ LET domain == DomainOrder[di]
           me == PhaseNode(domain, PhaseOrder[pi])
           r == HRun(IF kind[me] = "Null" THEN <<>>
                     ELSE ParticleStmts(options, domain, PhaseOrder[pi]),
                     {"main", "domain", "Domain", "phase_name", "pref"})
       IN
        /\ calls' = [calls EXCEPT ![me] = @ + 1]
        /\ attrs' = r.attrs
        /\ perr' = r.err
        /\ hreads' = hreads \cup ReadsBy(me, r.rd)
        /\ val' = PhaseValues(domain, me, r.attrs[me] \ attrs[me])
        /\ IF r.err.type # "none"
           THEN /\ ppc' = "failed"
                /\ UNCHANGED <<pi, done>>
           ELSE /\ done' = done \cup {me}
                /\ pi' = pi + 1
                /\ ppc' = IF pi = 2 THEN "dom_agg" ELSE "dom_phases"
    /\ UNCHANGED <<options, di, kind, dlocals>>
    /\ UNCHANGED <<pin, ucall>>
    /\ UNCHANGED svars
    /\ UNCHANGED evars

\* Lines 267-343: the current electrode computes its aggregates and
\* returns; the loop at line 99 moves to the next domain.
DomainAggregates ==
    /\ ppc = "dom_agg"
    /\ LET domain == DomainOrder[di]
           d == DomNode(domain)
           r == HRun(DomainAggregateStmts(options, domain), dlocals)
       IN
        /\ attrs' = r.attrs
        /\ perr' = r.err
        /\ hreads' = hreads \cup ReadsBy(d, r.rd)
        /\ val' = DomainValues(domain, r.attrs[d] \ attrs[d])
        /\ IF r.err.type # "none"
           THEN /\ ppc' = "failed"
                /\ UNCHANGED <<di, done>>
           ELSE /\ done' = done \cup {d}
                /\ di' = di + 1
                /\ ppc' = "dom_enter"
    /\ dlocals' = {}
    /\ UNCHANGED <<options, pi, kind, calls>>
    /\ UNCHANGED <<pin, ucall>>
    /\ UNCHANGED svars
    /\ UNCHANGED evars

\* Lines 102-143: after the loop over the domains, the top level computes
\* its aggregates and the constructor returns.
TopAggregates ==
    /\ ppc = "dom_enter"
    /\ di = 4
    /\ LET r == HRun(TopAggregateStmts(options), {}) IN
        /\ attrs' = r.attrs
        /\ perr' = r.err
        /\ hreads' = hreads \cup ReadsBy("top", r.rd)
        /\ val' = TopValues(r.attrs["top"] \ attrs["top"])
        /\ IF r.err.type # "none"
           THEN /\ ppc' = "failed"
                /\ UNCHANGED done
           ELSE /\ ppc' = "built"
                /\ done' = done \cup {"top"}
    /\ UNCHANGED <<options, di, pi, kind, calls, dlocals>>
    /\ UNCHANGED <<pin, ucall>>
    /\ UNCHANGED svars
    /\ UNCHANGED evars

----------------------------------------------------------------------------
(* The SEI growth submodel *)

SEIOptions ==
    {"reaction limited", "electron-migration limited",
     "interstitial-diffusion limited", "solvent-diffusion limited",
     "ec reaction limited"}

ReactionLocs == {"x-average", "full electrode", "interface"}

\* Option values a caller may pass, the supported ones and one that is not.
SEIInputs == SEIOptions \cup {"unknown limited"}
LocInputs == ReactionLocs \cup {"particle"}

\* The parameter node the submodel reads as self.phase_param
\* (phase = "primary" on the negative electrode).
PP == "n.prim"

\* self.reaction and self.reaction_name set by the base class.
reaction(cr)      == IF cr THEN "SEI on cracks" ELSE "SEI"
reaction_name(cr) == reaction(cr) \o " "

K_T       == "Negative electrode temperature [K]"
K_dphi_Li == "Lithium metal interface surface potential difference [V]"
K_phi_Li  == "Lithium metal interface electrode potential [V]"
K_dphi_n  == "Negative electrode surface potential difference [V]"
K_phi_n   == "Negative electrode potential [V]"
K_j       == "Negative electrode interfacial current density [A.m-2]"
K_j_Li    == "Lithium metal total interfacial current density [A.m-2]"
K_j_xav   == "X-averaged negative electrode total interfacial current density [A.m-2]"
K_lcr_av  == "X-averaged negative particle crack length [m]"
K_dlcr_av == "X-averaged negative particle cracking rate [m.s-1]"
K_lcr     == "Negative particle crack length [m]"
K_dlcr    == "Negative particle cracking rate [m.s-1]"

K_L(pos, cr)     == pos \o " " \o reaction_name(cr) \o "thickness [m]"
K_L_av(pos, cr)  == "X-averaged " \o pos \o " " \o reaction_name(cr) \o "thickness [m]"
K_aj(pos, cr)    == pos \o " " \o reaction_name(cr)
                    \o "volumetric interfacial current density [A.m-3]"
K_aj_av(pos, cr) == "X-averaged " \o pos \o " " \o reaction_name(cr)
                    \o "volumetric interfacial current density [A.m-3]"

\* Keys other submodels register: the coupling inputs.
ExternalKeys ==
    {K_T, K_dphi_Li, K_phi_Li, K_dphi_n, K_phi_n, K_j, K_j_Li, K_j_xav,
     K_lcr_av, K_dlcr_av, K_lcr, K_dlcr}

\* Keys returned by self._get_standard_thickness_variables(L_inner, L_outer).
ThicknessKeys(cr) ==
    {K_L("Inner", cr), K_L("Outer", cr), K_L("Total", cr),
     K_L_av("inner", cr), K_L_av("outer", cr)}

\* Keys added by the helpers called at lines 160-164.
ReactionKeys(cr) ==
    {K_aj("Inner", cr), K_aj("Outer", cr),
     K_aj_av("inner", cr), K_aj_av("outer", cr)}

OwnKeys(cr) == ThicknessKeys(cr) \cup ReactionKeys(cr)

\* Keys added at lines 141-147.
ECKeys(cr) ==
    LET name == IF reaction(cr) = "SEI on cracks"
                THEN "EC concentration on cracks"
                ELSE "EC surface concentration"
    IN {name \o " [mol.m-3]", "X-averaged " \o name \o " [mol.m-3]"}

\* BaseModel.__init__ (line 30) accepts the options.
BaseOptionsOK(opt) == opt \in SEIOptions

\* SEIGrowth.get_fundamental_variables, lines 33-65.
FundamentalStmts(loc, opt, cr) ==
    LET OneL(pos) ==
            (CASE loc = "x-average" ->
                    << Stmt(38, <<>>, {"L_av"}, {}, {}),
                       Stmt(43, <<Loc("L_av")>>, {"L"}, {}, {}) >>
               [] loc = "full electrode" ->
                    << Stmt(45, <<>>, {"L"}, {}, {}) >>
               [] loc = "interface" ->
                    << Stmt(51, <<>>, {"L"}, {}, {}) >>
               [] OTHER -> <<>>)
            \o << Stmt(55, <<Loc("L")>>, {}, {}, {}),
                  Stmt(56, <<Loc("Ls"), Loc("L")>>, {}, {}, {}) >>
    IN << Stmt(34, <<>>, {"Ls"}, {}, {}) >>
       \o OneL("inner") \o OneL("outer")
       \o << Stmt(58, <<Loc("Ls")>>, {"L_inner", "L_outer"}, {}, {}) >>
       \o (IF opt = "ec reaction limited"
           THEN << Stmt(61, <<Loc("L_inner")>>, {"L_inner"}, {}, {}) >>
           ELSE <<>>)
       \o << Stmt(63, <<Loc("L_inner"), Loc("L_outer")>>, {"variables"}, {}, {}) >>

\* A lookup that falls back on whichever total current the pool holds.
JLookupKey_ByPresence(loc, pool) ==
    IF K_j \in pool THEN K_j
    ELSE IF K_j_Li \in pool THEN K_j_Li
    ELSE K_j_xav

\* The pool key that lines 86-94 read j from.
JLookupKey(loc, pool) ==
    IF K_j \in pool THEN K_j
    ELSE IF loc = "interface" THEN K_j_Li
    ELSE K_j_xav

\* The mechanism branch of lines 105-147.
MechanismStmts(opt, cr) ==
    CASE opt = "reaction limited" ->
           << Stmt(106, <<Loc("phase_param"), Attr(PP, "C_sei_reaction")>>,
                   {"C_sei"}, {}, {}),
              Stmt(107, <<Loc("C_sei"), Loc("F_RT"), Loc("eta_SEI")>>,
                   {"j_sei"}, {}, {}) >>
      [] opt = "electron-migration limited" ->
           << Stmt(110, <<Loc("phase_param"), Attr(PP, "U_inner_electron")>>,
                   {"U_inner"}, {}, {}),
              Stmt(111, <<Loc("phase_param"), Attr(PP, "C_sei_electron")>>,
                   {"C_sei"}, {}, {}),
              Stmt(112, <<Loc("phi_s_n"), Loc("U_inner"), Loc("C_sei"),
                          Loc("L_sei_inner")>>, {"j_sei"}, {}, {}) >>
      [] opt = "interstitial-diffusion limited" ->
           << Stmt(115, <<Loc("phase_param"), Attr(PP, "C_sei_inter")>>,
                   {"C_sei"}, {}, {}),
              Stmt(116, <<Loc("F_RT"), Loc("delta_phi"), Loc("C_sei"),
                          Loc("L_sei_inner")>>, {"j_sei"}, {}, {}) >>
      [] opt = "solvent-diffusion limited" ->
           << Stmt(119, <<Loc("phase_param"), Attr(PP, "C_sei_solvent")>>,
                   {"C_sei"}, {}, {}),
              Stmt(120, <<Loc("C_sei"), Loc("L_sei_outer")>>,
                   {"j_sei"}, {}, {}) >>
      [] opt = "ec reaction limited" ->
           << Stmt(123, <<Loc("phase_param"), Attr(PP, "C_sei_ec")>>,
                   {"C_sei_ec"}, {}, {}),
              Stmt(124, <<Loc("phase_param"), Attr(PP, "C_ec")>>,
                   {"C_ec"}, {}, {}),
              Stmt(134, <<Loc("C_sei_ec"), Glob("prefactor"), Loc("eta_SEI")>>,
                   {"C_sei_exp"}, {}, {}),
              Stmt(135, <<Loc("C_sei_exp"), Loc("L_sei"), Loc("C_ec")>>,
                   {"j_sei"}, {}, {}),
              Stmt(136, <<Loc("L_sei"), Loc("C_ec"), Loc("C_sei_exp")>>,
                   {"c_ec"}, {}, {}),
              Stmt(139, <<Loc("c_ec")>>, {"c_ec_av"}, {}, {}),
              Stmt(145, <<Loc("c_ec"), Loc("c_ec_av")>>, {"name"}, ECKeys(cr), {}) >>
      [] OTHER -> <<>>

\* SEIGrowth.get_coupled_variables, lines 67-166, on the pool it is given.
CoupledStmts(loc, opt, cr, pool) ==
    << Stmt(68, <<>>, {"phase_param"}, {}, {}),
       Stmt(70, <<Key(K_T)>>, {"T"}, {}, {}) >>
    \o (IF loc = "interface"
        THEN << Stmt(72, <<Key(K_dphi_Li)>>, {"delta_phi"}, {}, {}),
                Stmt(75, <<Key(K_phi_Li)>>, {"phi_s_n"}, {}, {}),
                Stmt(76, <<Loc("T")>>, {"T"}, {}, {}) >>
        ELSE << Stmt(78, <<Key(K_dphi_n)>>, {"delta_phi"}, {}, {}),
                Stmt(79, <<Key(K_phi_n)>>, {"phi_s_n"}, {}, {}) >>)
    \o << Stmt(IF K_j \in pool THEN 87 ELSE IF loc = "interface" THEN 89 ELSE 91,
               <<Key(JLookupKey(loc, pool))>>, {"j"}, {}, {}),
          Stmt(96, <<Key(K_L("Inner", cr))>>, {"L_sei_inner"}, {}, {}),
          Stmt(97, <<Key(K_L("Outer", cr))>>, {"L_sei_outer"}, {}, {}),
          Stmt(98, <<Key(K_L("Total", cr))>>, {"L_sei"}, {}, {}),
          Stmt(100, <<Loc("phase_param"), Attr(PP, "R_sei")>>, {"R_sei"}, {}, {}),
          Stmt(101, <<Loc("delta_phi"), Loc("j"), Loc("L_sei"), Loc("R_sei")>>,
               {"eta_SEI"}, {}, {}),
          Stmt(103, <<Glob("param"), Attr("top", "F"), Attr("top", "R"), Loc("T")>>,
               {"F_RT"}, {}, {}) >>
    \o MechanismStmts(opt, cr)
    \o (IF opt = "ec reaction limited"
        THEN << Stmt(150, <<>>, {"inner_sei_proportion"}, {}, {}) >>
        ELSE << Stmt(152, <<Loc("phase_param"), Attr(PP, "inner_sei_proportion")>>,
                     {"inner_sei_proportion"}, {}, {}) >>)
    \o << Stmt(155, <<Loc("phase_param"), Attr(PP, "E_over_RT_sei"),
                      Glob("prefactor")>>, {"Arrhenius"}, {}, {}),
          Stmt(157, <<Loc("inner_sei_proportion"), Loc("Arrhenius"), Loc("j_sei")>>,
               {"j_inner"}, {}, {}),
          Stmt(158, <<Loc("inner_sei_proportion"), Loc("Arrhenius"), Loc("j_sei")>>,
               {"j_outer"}, {}, {}),
          Stmt(160, <<Loc("j_inner"), Loc("j_outer")>>, {}, ReactionKeys(cr), {}) >>

\* The pool keys set_rhs and set_initial_conditions read the unknowns from.
LKeys(loc, cr) ==
    IF loc = "x-average"
    THEN <<K_L_av("inner", cr), K_L_av("outer", cr)>>
    ELSE <<K_L("Inner", cr), K_L("Outer", cr)>>

\* SEIGrowth.set_rhs, lines 168-216: everything before self.rhs is assigned.
RhsStmts(loc, cr) ==
    << Stmt(169, <<>>, {"phase_name", "phase_param", "param"}, {}, {}) >>
    \o (IF loc = "x-average"
        THEN << Stmt(174, <<Key(LKeys(loc, cr)[1])>>, {"L_inner"}, {}, {}),
                Stmt(175, <<Key(LKeys(loc, cr)[2])>>, {"L_outer"}, {}, {}),
                Stmt(176, <<Key(K_aj_av("inner", cr))>>, {"a_j_inner"}, {}, {}),
                Stmt(180, <<Key(K_aj_av("outer", cr))>>, {"a_j_outer"}, {}, {}) >>
        ELSE << Stmt(185, <<Key(LKeys(loc, cr)[1])>>, {"L_inner"}, {}, {}),
                Stmt(186, <<Key(LKeys(loc, cr)[2])>>, {"L_outer"}, {}, {}),
                Stmt(187, <<Key(K_aj("Inner", cr))>>, {"a_j_inner"}, {}, {}),
                Stmt(191, <<Key(K_aj("Outer", cr))>>, {"a_j_outer"}, {}, {}) >>)
    \o (IF reaction(cr) = "SEI on cracks"
        THEN (IF loc = "x-average"
              THEN << Stmt(200, <<Key(K_lcr_av)>>, {"l_cr"}, {}, {}),
                      Stmt(201, <<Key(K_dlcr_av)>>, {"dl_cr"}, {}, {}) >>
              ELSE << Stmt(203, <<Key(K_lcr)>>, {"l_cr"}, {}, {}),
                      Stmt(204, <<Key(K_dlcr)>>, {"dl_cr"}, {}, {}) >>)
             \o << Stmt(206, <<Loc("dl_cr"), Loc("l_cr"),
                               Attr(PP, "L_outer_crack_0"), Loc("L_outer")>>,
                        {"spreading_outer"}, {}, {}),
                   Stmt(209, <<Loc("dl_cr"), Loc("l_cr"),
                               Attr(PP, "L_inner_crack_0"), Loc("L_inner")>>,
                        {"spreading_inner"}, {}, {}) >>
        ELSE << Stmt(212, <<>>, {"spreading_outer", "spreading_inner"}, {}, {}) >>)
    \o << Stmt(215, <<Loc("phase_param"), Attr(PP, "V_bar_inner"), Loc("param"),
                      Attr("top", "F"), Attr(PP, "z_sei")>>, {"Gamma_SEI"}, {}, {}),
          Stmt(216, <<Attr(PP, "V_bar_outer"), Attr(PP, "V_bar_inner")>>,
               {"v_bar"}, {}, {}) >>

\* The spreading term of a layer, lines 198-213.
Spreading(pos, cr) ==
    IF reaction(cr) = "SEI on cracks"
    THEN "dl_cr / l_cr * (L_" \o pos \o "_crack_0 - L_" \o pos \o ")"
    ELSE "0"

\* The mapping assigned to self.rhs, lines 218-224.
RhsMapping(opt, cr) ==
    IF opt = "ec reaction limited"
    THEN { [key |-> "L_outer", coef |-> "-Gamma_SEI", flux |-> "a_j_outer",
            spreading |-> Spreading("outer", cr)] }
    ELSE { [key |-> "L_inner", coef |-> "-Gamma_SEI", flux |-> "a_j_inner",
            spreading |-> Spreading("inner", cr)],
           [key |-> "L_outer", coef |-> "-v_bar * Gamma_SEI", flux |-> "a_j_outer",
            spreading |-> Spreading("outer", cr)] }

\* The reference constants chosen at lines 234-239.
RefConstants(cr) ==
    IF reaction(cr) = "SEI on cracks"
    THEN <<"L_inner_crack_0", "L_outer_crack_0">>
    ELSE <<"L_inner_0", "L_outer_0">>

\* SEIGrowth.set_initial_conditions, lines 226-239.
InitialConditionStmts(loc, cr) ==
    (IF loc = "x-average"
     THEN << Stmt(228, <<Key(LKeys(loc, cr)[1])>>, {"L_inner"}, {}, {}),
             Stmt(229, <<Key(LKeys(loc, cr)[2])>>, {"L_outer"}, {}, {}) >>
     ELSE << Stmt(231, <<Key(LKeys(loc, cr)[1])>>, {"L_inner"}, {}, {}),
             Stmt(232, <<Key(LKeys(loc, cr)[2])>>, {"L_outer"}, {}, {}) >>)
    \o (IF reaction(cr) = "SEI on cracks"
        THEN << Stmt(235, <<Attr(PP, RefConstants(cr)[1])>>, {"L_inner_0"}, {}, {}),
                Stmt(236, <<Attr(PP, RefConstants(cr)[2])>>, {"L_outer_0"}, {}, {}) >>
        ELSE << Stmt(238, <<Attr(PP, RefConstants(cr)[1])>>, {"L_inner_0"}, {}, {}),
                Stmt(239, <<Attr(PP, RefConstants(cr)[2])>>, {"L_outer_0"}, {}, {}) >>)

\* The mapping assigned to self.initial_conditions, lines 240-243.
InitialConditionMapping(opt, cr) ==
    IF opt = "ec reaction limited"
    THEN { [key |-> "L_outer", value |-> {RefConstants(cr)[1], RefConstants(cr)[2]}] }
    ELSE { [key |-> "L_inner", value |-> {RefConstants(cr)[1]}],
           [key |-> "L_outer", value |-> {RefConstants(cr)[2]}] }

----------------------------------------------------------------------------
(* The flux expressions of get_coupled_variables, lines 122-158, on numbers. *)
(* A proportion p stands for p / PropOne; a quotient is a pair <<num, den>>. *)

\* The denominator proportions are counted in.
PropOne == 4
\* Largest magnitude of the numbers the expressions are evaluated on.
MaxVal == 3

\* Lines 149-152.
inner_sei_proportion(opt, p) == IF opt = "ec reaction limited" THEN 0 ELSE p

\* Line 157: inner_sei_proportion * Arrhenius * j_sei.
j_inner(p, A, j) == p * A * j
\* Line 158: (1 - inner_sei_proportion) * Arrhenius * j_sei.
j_outer(p, A, j) == (PropOne - p) * A * j

\* Line 135: -C_sei_exp / (1 + L_sei * C_ec * C_sei_exp).
j_sei_ec(L, C, K) == <<-K, 1 + L * C * K>>
\* Line 136: 1 / (1 + L_sei * C_ec * C_sei_exp).
c_ec(L, C, K) == <<1, 1 + L * C * K>>

----------------------------------------------------------------------------
(* The lifecycle of one SEIGrowth instance, one action per callable *)

SInit ==
    /\ spc = "none"
    /\ SEI = ""
    /\ reaction_loc = ""
    /\ cracks = FALSE
    /\ variables = {}
    /\ hist = <<>>
    /\ serr = NoErr
    /\ slocals = {}
    /\ j_src = ""
    /\ L_inner_expr = "unset"
    /\ rhs = {}
    /\ initial_conditions = {}

\* The pools a submodel may be handed: the coupling inputs with at most
\* MaxMissing of them absent (the pool the aggregator has merged so far),
\* or a complete pool that already holds the submodel's own keys.
Pools(cr) ==
    {ExternalKeys \ m :
        m \in {x \in SUBSET ExternalKeys : Cardinality(x) <= MaxMissing}}
    \cup {ExternalKeys \cup OwnKeys(cr)}

\* SEIGrowth.__init__, lines 29-31, on a built parameter hierarchy.
SEIGrowth__init__ ==
    /\ ppc = "built"
    /\ spc = "none"
    /\ \E opt \in SEIInputs, loc \in LocInputs, cr \in BOOLEAN :
       \E pool \in Pools(cr) :
        /\ SEI' = opt
        /\ reaction_loc' = loc
        /\ cracks' = cr
        /\ variables' = pool
        /\ IF BaseOptionsOK(opt)
           THEN /\ spc' = "constructed"
                /\ serr' = NoErr
           ELSE /\ spc' = "failed"
                /\ serr' = [type |-> "OptionError", line |-> 30]
    /\ UNCHANGED <<hist, slocals, j_src, L_inner_expr, rhs, initial_conditions>>
    /\ UNCHANGED hvars
    /\ UNCHANGED evars

SRun(stmts) == Exec(stmts, ExecState({}, variables, attrs, kind))

Callable(name) ==
    /\ spc = "constructed"
    /\ \A i \in 1..Len(hist) : hist[i] # name
    /\ hist' = Append(hist, name)

\* get_fundamental_variables; the caller merges the returned mapping into
\* the pool.
get_fundamental_variables ==
    /\ Callable("get_fundamental_variables")
    /\ LET r == SRun(FundamentalStmts(reaction_loc, SEI, cracks)) IN
        /\ serr' = r.err
        /\ slocals' = r.locals
        /\ IF r.err.type = "none"
           THEN /\ spc' = "constructed"
                /\ variables' = variables \cup ThicknessKeys(cracks)
                /\ L_inner_expr' = IF SEI = "ec reaction limited"
                                   THEN "0 * Variable" ELSE "Variable"
           ELSE /\ spc' = "failed"
                /\ UNCHANGED <<variables, L_inner_expr>>
    /\ UNCHANGED <<SEI, reaction_loc, cracks, j_src, rhs, initial_conditions>>
    /\ UNCHANGED hvars
    /\ UNCHANGED evars

\* get_coupled_variables; it updates the pool it is given in place.
get_coupled_variables ==
    /\ Callable("get_coupled_variables")
    /\ LET r == SRun(CoupledStmts(reaction_loc, SEI, cracks, variables)) IN
        /\ serr' = r.err
        /\ slocals' = r.locals
        /\ variables' = r.pool
        /\ j_src' = IF "j" \in r.locals
                    THEN JLookupKey(reaction_loc, variables) ELSE ""
        /\ spc' = IF r.err.type = "none" THEN "constructed" ELSE "failed"
    /\ UNCHANGED <<SEI, reaction_loc, cracks, L_inner_expr, rhs, initial_conditions>>
    /\ UNCHANGED hvars
    /\ UNCHANGED evars

set_rhs ==
    /\ Callable("set_rhs")
    /\ LET r == SRun(RhsStmts(reaction_loc, cracks)) IN
        /\ serr' = r.err
        /\ slocals' = r.locals
        /\ IF r.err.type = "none"
           THEN /\ spc' = "constructed"
                /\ rhs' = RhsMapping(SEI, cracks)
           ELSE /\ spc' = "failed"
                /\ UNCHANGED rhs
    /\ UNCHANGED <<SEI, reaction_loc, cracks, variables, j_src, L_inner_expr,
                   initial_conditions>>
    /\ UNCHANGED hvars
    /\ UNCHANGED evars

set_initial_conditions ==
    /\ Callable("set_initial_conditions")
    /\ LET r == SRun(InitialConditionStmts(reaction_loc, cracks)) IN
        /\ serr' = r.err
        /\ slocals' = r.locals
        /\ IF r.err.type = "none"
           THEN /\ spc' = "constructed"
                /\ initial_conditions' = InitialConditionMapping(SEI, cracks)
           ELSE /\ spc' = "failed"
                /\ UNCHANGED initial_conditions
    /\ UNCHANGED <<SEI, reaction_loc, cracks, variables, j_src, L_inner_expr, rhs>>
    /\ UNCHANGED hvars
    /\ UNCHANGED evars

----------------------------------------------------------------------------
(* The electrolyte diffusion submodels (electrolyte_diffusion.py) *)

\* Number of distinct symbols a constructor argument is drawn from.
MaxSym == 3
\* Largest number of attributes the param argument may lack.
MaxAbsent == 1

Symbols == 1..MaxSym

\* Attributes the modules pybamm.standard_parameters and
\* pybamm.standard_parameters_lithium_ion provide.
StandardParameters ==
    [sp |-> {"D_e", "b", "s"},
     spli |-> {"epsilon", "C_e", "gamma_hat_e", "c_e_init"}]

\* Attributes StefanMaxwellWithPorosity reads from its param argument.
PorosityParamAttrs == {"beta_surf", "C_e", "gamma_hat_e", "c_e_init"}

ParamArgs ==
    {PorosityParamAttrs \ m :
        m \in {x \in SUBSET PorosityParamAttrs : Cardinality(x) <= MaxAbsent}}

\* BaseModel.__init__: every mapping starts empty.
NoModel ==
    [cls |-> "", rhs |-> {}, initial_conditions |-> {},
     boundary_conditions |-> {}, variables |-> {}]

\* StefanMaxwell.__init__, lines 23-40.
StefanMaxwellStmts ==
    << Stmt(27, <<Glob("pybamm")>>, {"sp"}, {}, {}),
       Stmt(28, <<Glob("pybamm")>>, {"spli"}, {}, {}),
       Stmt(30, <<Loc("sp"), Attr("sp", "D_e"), Loc("c_e"), Loc("spli"),
                  Attr("spli", "epsilon"), Attr("sp", "b"), Glob("pybamm")>>,
            {"N_e"}, {}, {}),
       Stmt(32, <<Loc("c_e"), Glob("pybamm"), Loc("N_e"), Attr("spli", "C_e"),
                  Attr("spli", "epsilon"), Attr("sp", "s"),
                  Attr("spli", "gamma_hat_e"), Loc("j")>>,
            {}, {}, Sets("self", {"rhs"})),
       Stmt(36, <<Loc("c_e"), Attr("spli", "c_e_init")>>, {}, {},
            Sets("self", {"initial_conditions"})),
       Stmt(37, <<Loc("N_e"), Glob("pybamm")>>, {}, {},
            Sets("self", {"boundary_conditions"})),
       Stmt(40, <<Loc("c_e"), Loc("N_e")>>, {}, {}, Sets("self", {"variables"})) >>

\* StefanMaxwellWithPorosity.__init__, lines 62-83.
StefanMaxwellWithPorosityStmts ==
    << Stmt(64, <<Glob("pybamm")>>, {"sp"}, {}, {}),
       Stmt(67, <<Loc("epsilon"), Attr("sp", "b"), Glob("pybamm"), Loc("c_e")>>,
            {"N_e"}, {}, {}),
       Stmt(69, <<Attr("param", "beta_surf"), Loc("j")>>, {"deps_dt"}, {}, {}),
       Stmt(72, <<Loc("c_e"), Loc("epsilon"), Glob("pybamm"), Loc("N_e"),
                  Attr("param", "C_e"), Attr("sp", "s"),
                  Attr("param", "gamma_hat_e"), Loc("j"), Loc("c_e"),
                  Loc("deps_dt")>>,
            {}, {}, Sets("self", {"rhs"})),
       Stmt(81, <<Loc("c_e"), Attr("param", "c_e_init")>>, {}, {},
            Sets("self", {"initial_conditions"})),
       Stmt(82, <<Loc("N_e")>>, {}, {}, Sets("self", {"boundary_conditions"})),
       Stmt(83, <<Loc("c_e"), Loc("N_e")>>, {}, {}, Sets("self", {"variables"})) >>

\* The flux N_e of lines 30 and 67, an expression in c_e (and epsilon).
N_e(c_e, epsilon) == [op |-> "N_e", c_e |-> c_e, epsilon |-> epsilon]

\* A variant whose initial condition is keyed by the flux.
ElectrolyteModel_KeyedByFlux(cls, set, c_e, epsilon, j) ==
    [cls |-> cls,
     rhs |-> IF "rhs" \in set
             THEN {[key |-> [op |-> "Symbol", id |-> c_e],
                    value |-> [flux |-> N_e(c_e, epsilon), j |-> j]]}
             ELSE {},
     initial_conditions |->
             IF "initial_conditions" \in set
             THEN {[key |-> N_e(c_e, epsilon), value |-> "c_e_init"]}
             ELSE {},
     boundary_conditions |->
             IF "boundary_conditions" \in set
             THEN {[key |-> N_e(c_e, epsilon), value |-> "left: 0, right: 0"]}
             ELSE {},
     variables |-> IF "variables" \in set THEN {"c_e", "N_e"} ELSE {}]

\* The mappings of the object after the assignments set have been made
\* (lines 32-40 and 72-83): rhs and initial_conditions keyed by c_e,
\* boundary_conditions keyed by N_e.
ElectrolyteModel(cls, set, c_e, epsilon, j) ==
    [cls |-> cls,
     rhs |-> IF "rhs" \in set
             THEN {[key |-> [op |-> "Symbol", id |-> c_e],
                    value |-> [flux |-> N_e(c_e, epsilon), j |-> j]]}
             ELSE {},
     initial_conditions |->
             IF "initial_conditions" \in set
             THEN {[key |-> [op |-> "Symbol", id |-> c_e], value |-> "c_e_init"]}
             ELSE {},
     boundary_conditions |->
             IF "boundary_conditions" \in set
             THEN {[key |-> N_e(c_e, epsilon), value |-> "left: 0, right: 0"]}
             ELSE {},
     variables |-> IF "variables" \in set THEN {"c_e", "N_e"} ELSE {}]

EInit ==
    /\ epc = "none"
    /\ em = NoModel
    /\ eerr = NoErr

ERun(stmts, locals, param) ==
    Exec(stmts,
         ExecState(locals, {},
                   [n \in {"self", "sp", "spli", "param"} |->
                       CASE n = "self"  -> {}
                         [] n = "sp"    -> StandardParameters.sp
                         [] n = "spli"  -> StandardParameters.spli
                         [] n = "param" -> param],
                   [n \in {"self", "sp", "spli", "param"} |-> "Object"]))

\* StefanMaxwell(c_e, j).
StefanMaxwell__init__ ==
    /\ epc = "none"
    /\ \E c_e \in Symbols, j \in Symbols :
        LET r == ERun(StefanMaxwellStmts, {"self", "c_e", "j"}, {}) IN
        /\ em' = ElectrolyteModel("StefanMaxwell", r.attrs["self"],
                                  c_e, "spli.epsilon", j)
        /\ eerr' = r.err
        /\ epc' = IF r.err.type = "none" THEN "built" ELSE "failed"
    /\ UNCHANGED hvars
    /\ UNCHANGED svars

\* StefanMaxwellWithPorosity(c_e, epsilon, j, param).
StefanMaxwellWithPorosity__init__ ==
    /\ epc = "none"
    /\ \E c_e \in Symbols, epsilon \in Symbols, j \in Symbols,
          param \in ParamArgs :
        LET r == ERun(StefanMaxwellWithPorosityStmts,
                      {"self", "c_e", "epsilon", "j", "param"}, param) IN
        /\ em' = ElectrolyteModel("StefanMaxwellWithPorosity", r.attrs["self"],
                                  c_e, epsilon, j)
        /\ eerr' = r.err
        /\ epc' = IF r.err.type = "none" THEN "built" ELSE "failed"
    /\ UNCHANGED hvars
    /\ UNCHANGED svars

----------------------------------------------------------------------------
\* The submodels are built on a hierarchy constructed from accepted options.
Init ==
    /\ HInit /\ SInit /\ EInit
    /\ pin = DefaultInputs
    /\ \A d \in ElectrodeDomains : options.phases[d] \in SupportedPhaseCounts

Next ==
    \/ LithiumIonParameters__init__
    \/ TopSetDimensionalBegin
    \/ DomainSetDimensionalBegin
    \/ PhaseSetDimensional
    \/ DomainAggregates
    \/ TopAggregates
    \/ SEIGrowth__init__
    \/ get_fundamental_variables
    \/ get_coupled_variables
    \/ set_rhs
    \/ set_initial_conditions

Spec == Init /\ [][Next]_vars

\* The construction with the parameter set's values left open, and the
\* open-circuit potential asked of the constructed phases.
StoInputs == (0 - 2)..(StoOne + 2)
TInputs   == {CellInputs.T_ref, CellInputs.T_init}

\* ParticleLithiumIonParameters.U called on a phase of the constructed
\* parameter object; one call is followed.
U_call ==
    /\ ppc = "built"
    /\ ucall = NoCall
    /\ \E me \in ElectrodeSlots : \E sto \in StoInputs : \E T \in TInputs :
        /\ kind[me] = "Particle"
        /\ ucall' = [op |-> "call", of |-> me, sto |-> sto, T |-> T,
                     ret |-> U(me, sto, T)]
    /\ UNCHANGED <<options, ppc, di, pi, kind, attrs, calls, done, dlocals,
                   perr, hreads, pin, val>>
    /\ UNCHANGED svars
    /\ UNCHANGED evars

ValueInit == HInit /\ SInit /\ EInit /\ pin \in ParamInputs

ValueNext ==
    \/ LithiumIonParameters__init__
    \/ TopSetDimensionalBegin
    \/ DomainSetDimensionalBegin
    \/ PhaseSetDimensional
    \/ DomainAggregates
    \/ TopAggregates
    \/ U_call

ValueSpec == ValueInit /\ [][ValueNext]_vars

\* The construction of the hierarchy alone, from any "particle phases".
HierarchyInit == HInit /\ SInit /\ EInit /\ pin = DefaultInputs

HierarchyNext ==
    \/ LithiumIonParameters__init__
    \/ TopSetDimensionalBegin
    \/ DomainSetDimensionalBegin
    \/ PhaseSetDimensional
    \/ DomainAggregates
    \/ TopAggregates

HierarchySpec == HierarchyInit /\ [][HierarchyNext]_vars

\* The construction of an electrolyte diffusion submodel.
ElectrolyteNext ==
    \/ StefanMaxwell__init__
    \/ StefanMaxwellWithPorosity__init__

ElectrolyteSpec == Init /\ [][ElectrolyteNext]_vars
----------------------------------------------------------------------------
(* Properties *)

LastCall == IF hist = <<>> THEN "" ELSE hist[Len(hist)]

Called(name) == \E i \in 1..Len(hist) : hist[i] = name

ValidConfig == SEI \in SEIOptions /\ reaction_loc \in ReactionLocs

\* The pool keys a statement sequence reads.
KeysOf(stmts) ==
    {r.n : r \in {rr \in UNION {{stmts[i].reads[j] : j \in 1..Len(stmts[i].reads)} :
                                  i \in 1..Len(stmts)} : rr.k = "key"}}

CoupledKeys == KeysOf(CoupledStmts(reaction_loc, SEI, cracks, variables))
RhsKeys     == KeysOf(RhsStmts(reaction_loc, cracks))
ICKeys      == KeysOf(InitialConditionStmts(reaction_loc, cracks))

\* C1 (as stated): for each of the five SEI option values and each reaction
\* location, get_coupled_variables called on a pool holding the keys it
\* reads binds exactly one j_sei from bound names, then j_inner and j_outer,
\* and returns normally with the reaction variables added.
C1_Orig ==
    (LastCall = "get_coupled_variables" /\ ValidConfig
        /\ CoupledKeys \subseteq variables)
    => /\ serr.type = "none"
       /\ {"j_sei", "j_inner", "j_outer"} \subseteq slocals
       /\ ReactionKeys(cracks) \subseteq variables

InOrder ==
    \A i \in 1..Len(hist) :
        hist[i] = <<"get_fundamental_variables", "get_coupled_variables",
                    "set_rhs", "set_initial_conditions">>[i]

\* C2 (as stated): when the four callables run in the order
\* get_fundamental_variables, get_coupled_variables, set_rhs,
\* set_initial_conditions on a pool holding the coupling inputs, every key
\* the next callable reads has been registered by an earlier phase and no
\* phase finds a key missing; set_rhs run before get_coupled_variables
\* finds its volumetric current density keys missing.
C2_Orig ==
    /\ (InOrder /\ Len(hist) >= 2 /\ ValidConfig
           /\ CoupledKeys \subseteq variables
           /\ (RhsKeys \cap ExternalKeys) \subseteq variables)
       => (serr.type # "KeyError" /\ RhsKeys \subseteq variables)
    /\ (LastCall = "set_rhs" /\ ~Called("get_coupled_variables")
           /\ ~(ReactionKeys(cracks) \subseteq variables)
           /\ (RhsKeys \ ReactionKeys(cracks)) \subseteq variables)
       => serr.type = "KeyError"

\* C3 (as stated): an unrecognized "SEI" mechanism or reaction_loc is
\* rejected with a configuration error when the submodel is constructed,
\* before any lifecycle callable runs, and never surfaces as an unbound
\* name or a missing key inside equation construction.
C3_Orig ==
    (spc # "none" /\ ~ValidConfig)
    => (spc = "failed" /\ serr.type = "OptionError" /\ hist = <<>>)

JKeys == {K_j, K_j_Li, K_j_xav}

\* get_coupled_variables was called and reached the lookup of j at line 86.
LookupReached ==
    /\ LastCall = "get_coupled_variables"
    /\ ~(serr.type = "KeyError" /\ serr.line < 86)

LookupFailed == serr.type = "KeyError" /\ serr.line \in {87, 89, 91}

\* C4 (as stated): j is looked up through the primary name, else the
\* lithium-metal total, else the x-averaged total; whenever at least one of
\* the three names is in the pool the lookup succeeds with the
\* highest-priority name present.
C4_Orig ==
    (LookupReached /\ JKeys \cap variables # {})
    => /\ ~LookupFailed
       /\ j_src = (IF K_j \in variables THEN K_j
                   ELSE IF K_j_Li \in variables THEN K_j_Li ELSE K_j_xav)

\* C4 (amended): j is read from the primary name when it is in the pool;
\* otherwise from the one fallback name that reaction_loc selects (the
\* lithium-metal total for "interface", the x-averaged total for any other
\* location); the lookup succeeds exactly when the name so selected is in
\* the pool and raises a missing-key error otherwise.
C4_Amended ==
    LookupReached
    => LET sel == IF K_j \in variables THEN K_j
                  ELSE IF reaction_loc = "interface" THEN K_j_Li ELSE K_j_xav
       IN IF sel \in variables
          THEN j_src = sel /\ ~LookupFailed
          ELSE j_src = "" /\ LookupFailed

\* A fallback name was used: the primary name is absent and j was read from
\* the lithium-metal total current of an interface submodel.
C4_Witness ==
    /\ LookupReached
    /\ reaction_loc = "interface"
    /\ K_j \notin variables
    /\ j_src = K_j_Li

\* C5 (as stated): after set_rhs on a pool holding the keys it reads, rhs
\* has exactly the inner and the outer thickness as keys for the four
\* non-"ec" mechanisms and exactly the outer thickness for "ec reaction
\* limited", whose inner thickness is the zero expression 0 * L_inner.
C5_Orig ==
    /\ (LastCall = "set_rhs" /\ ValidConfig /\ RhsKeys \subseteq variables)
       => {e.key : e \in rhs} = (IF SEI = "ec reaction limited"
                                 THEN {"L_outer"} ELSE {"L_inner", "L_outer"})
    /\ (Called("get_fundamental_variables") /\ L_inner_expr # "unset")
       => (L_inner_expr = "0 * Variable" <=> SEI = "ec reaction limited")

\* C6 (as stated): after set_initial_conditions on a pool holding the keys
\* it reads, initial_conditions is {L_outer: L_inner_0 + L_outer_0} for
\* "ec reaction limited" and {L_inner: L_inner_0, L_outer: L_outer_0}
\* otherwise, with the crack-specific constants exactly for SEI on cracks.
C6_Orig ==
    (LastCall = "set_initial_conditions" /\ ValidConfig
        /\ ICKeys \subseteq variables)
    => LET i0 == IF cracks THEN "L_inner_crack_0" ELSE "L_inner_0"
           o0 == IF cracks THEN "L_outer_crack_0" ELSE "L_outer_0"
       IN initial_conditions =
            (IF SEI = "ec reaction limited"
             THEN {[key |-> "L_outer", value |-> {i0, o0}]}
             ELSE {[key |-> "L_inner", value |-> {i0}],
                   [key |-> "L_outer", value |-> {o0}]})

Props == 0..PropOne
Vals  == 0..MaxVal

\* C7 (as stated): the fluxes get_coupled_variables computes satisfy
\* j_inner + j_outer == Arrhenius * j_sei for every inner_sei_proportion
\* of a non-"ec" mechanism, and j_inner == 0, j_outer == Arrhenius * j_sei
\* for "ec reaction limited".
C7_Orig ==
    (LastCall = "get_coupled_variables" /\ ValidConfig
        /\ CoupledKeys \subseteq variables)
    => /\ {"j_inner", "j_outer"} \subseteq slocals
       /\ \A p \in Props, A \in Vals, j \in Vals :
            LET q == inner_sei_proportion(SEI, p) IN
            /\ j_inner(q, A, -j) + j_outer(q, A, -j) = PropOne * A * (-j)
            /\ SEI = "ec reaction limited"
               => (j_inner(q, A, -j) = 0 /\ j_outer(q, A, -j) = PropOne * A * (-j))

\* C8 (as stated): for "ec reaction limited" the closed-form pair the code
\* computes satisfies j_sei * (1 + L_sei*C_ec*K) == -K and
\* c_ec * (1 + L_sei*C_ec*K) == 1 for all L_sei, C_ec, K >= 0, hence
\* c_ec == 1 + j_sei*L_sei*C_ec and j_sei == -K*c_ec.
C8_Orig ==
    (LastCall = "get_coupled_variables" /\ SEI = "ec reaction limited"
        /\ reaction_loc \in ReactionLocs /\ CoupledKeys \subseteq variables)
    => /\ {"C_sei_exp", "j_sei", "c_ec"} \subseteq slocals
       /\ \A L \in Vals, C \in Vals, K \in Vals :
            LET js == j_sei_ec(L, C, K)
                ce == c_ec(L, C, K)
                D  == 1 + L * C * K
            IN /\ js[1] * D = -K * js[2]
               /\ ce[1] * D = ce[2]
               \* c_ec == 1 + j_sei * L_sei * C_ec, over the common denominator
               /\ ce[1] * js[2] = ce[2] * (js[2] + js[1] * L * C)
               \* j_sei == -K * c_ec
               /\ js[1] * ce[2] = -K * ce[1] * js[2]

\* C9 (as stated): set_rhs registers its entries, each of the form
\* -Gamma * flux + spreading with the same Gamma for both layers; the
\* spreading term is the literal 0 unless the submodel is SEI on cracks,
\* where it is (cracking rate / crack length) * (reference - thickness).
C9_Orig ==
    (LastCall = "set_rhs" /\ ValidConfig /\ RhsKeys \subseteq variables)
    => /\ rhs # {}
       /\ \A e \in rhs :
            /\ e.coef = "-Gamma_SEI"
            /\ ~cracks => e.spreading = "0"
            /\ cracks => e.spreading # "0"

TopAggregateAttrs == {"n_Li_e_init", "n_Li_particles_init", "n_Li_init", "ocv_init"}
DomainAggregateAttrs == {"epsilon_inactive", "cap_init", "n_Li_init"}

\* The order of the construction, common to C10 as stated and as amended:
\* no node runs twice, domains run negative, separator, positive, a
\* domain's aggregates exist only after its phase slots have run, and the
\* top-level aggregates exist only after the three domains have returned.
C10_Order(slots) ==
    /\ \A n \in Nodes : calls[n] <= 1
    /\ calls["s"] >= 1 => "n" \in done
    /\ calls["p"] >= 1 => "s" \in done
    /\ \A i \in 1..3 :
         (attrs[DomNode(DomainOrder[i])] \cap DomainAggregateAttrs # {})
         => \A j \in 1..2 :
              PhaseNode(DomainOrder[i], PhaseOrder[j]) \in slots
              => PhaseNode(DomainOrder[i], PhaseOrder[j]) \in done
    /\ (attrs["top"] \cap TopAggregateAttrs # {}) => DomainNodes \subseteq done

\* C10 (as stated): construction runs _set_dimensional_parameters exactly
\* once on every hierarchy node (top level, three domains, each phase slot
\* of each domain), domains in the order negative, separator, positive,
\* each domain's phases before its aggregates, the top-level aggregates
\* after all three domains.
C10_Orig ==
    /\ C10_Order(PhaseNodes)
    /\ (attrs["top"] \cap TopAggregateAttrs # {})
       => \A n \in Nodes : calls[n] = 1

\* C10 (amended): construction runs _set_dimensional_parameters at most
\* once on any node and, by the time the top-level aggregates are computed,
\* exactly once on the top level, on each of the three domains and on each
\* phase slot of the two electrode domains; the separator returns before
\* any loop over phases, so its two placeholder slots are never run and
\* its epsilon_inactive is computed without them.  Domains run in the
\* order negative, separator, positive, an electrode's phase slots run
\* before that electrode's aggregates, and the top-level aggregates are
\* computed only after all three domains have returned.
C10_Amended ==
    /\ C10_Order(ElectrodeSlots)
    /\ \A n \in PhaseNodes \ ElectrodeSlots : calls[n] = 0
    /\ (attrs["top"] \cap TopAggregateAttrs # {})
       => \A n \in Nodes \ (PhaseNodes \ ElectrodeSlots) : calls[n] = 1

\* A two-phase construction has returned with every aggregate computed.
C10_Witness ==
    /\ ppc = "built"
    /\ options.phases["negative"] = 2
    /\ TopAggregateAttrs \subseteq attrs["top"]
    /\ "epsilon_inactive" \in attrs["s"]
\* The node that holds a node as a slot: a phase slot is held by its
\* domain, a domain by the top level.
ParentOf ==
    [n \in Nodes \ {"top"} |->
        IF n \in DomainNodes THEN "top"
        ELSE CHOOSE d \in DomainNodes :
                \E j \in 1..2 : \E i \in 1..3 :
                    d = DomNode(DomainOrder[i])
                    /\ n = PhaseNode(DomainOrder[i], PhaseOrder[j])]

Parent(n) == ParentOf[n]

StrictlyBelow(n, m) ==
    /\ n # "top"
    /\ n # m
    /\ \/ Parent(n) = m
       \/ (Parent(n) # "top" /\ Parent(Parent(n)) = m)

\* C11 (as stated): while a node's _set_dimensional_parameters runs, every
\* value it reads is its own or a value of a node strictly below it; it
\* reads no value owned by its parent, an ancestor or a sibling.
C11_Orig ==
    \A r \in hreads : r.on = r.by \/ StrictlyBelow(r.on, r.by)

\* C11 (amended): while a node's _set_dimensional_parameters runs, every
\* value it reads is its own, a value of a node strictly below it whose
\* _set_dimensional_parameters has already returned, or a value that its
\* parent or the top level assigned before calling down to it (a domain
\* reads the top level's L_x and R; a phase reads its domain's L and the
\* top level's L_x, A_cc, F, T_init and T_ref); it reads no value owned by
\* a sibling.
C11_Amended ==
    \A r \in hreads :
        \/ r.on = r.by
        \/ StrictlyBelow(r.on, r.by) /\ r.returned
        \/ StrictlyBelow(r.by, r.on) /\ r.started /\ ~r.returned /\ r.ok

\* A construction has returned in which a phase read its domain and the
\* top level, a domain read the top level, and the top level read a
\* domain and a phase below it.
C11_Witness ==
    /\ ppc = "built"
    /\ \E r \in hreads : r.by = "n.prim" /\ r.on = "n" /\ r.n = "L"
    /\ \E r \in hreads : r.by = "n.prim" /\ r.on = "top" /\ r.n = "L_x"
    /\ \E r \in hreads : r.by = "s" /\ r.on = "top" /\ r.n = "L_x"
    /\ \E r \in hreads : r.by = "top" /\ r.on = "p" /\ r.n = "n_Li_init"
    /\ \E r \in hreads : r.by = "top" /\ r.on = "p.prim" /\ r.n = "U_init"

\* The value the real phase in a slot computes from the parameter set.
RealPhase(d, me, a) ==
    IF electrode_types(options, d) = "planar" THEN 0
    ELSE IF a = "n_Li_init"
    THEN pin.eps_s[me] * pin.c_init * CellInputs.L[d] * CellInputs.A_cc
    ELSE pin.eps_s[me] * CellInputs.L[d] * StoOne * CellInputs.A_cc

\* C12: for every electrode domain, once its phase slots have run, the
\* sums of lines 284 and 290 do not raise, and n_Li_init (and cap_init when
\* the electrode is porous) equals primary + secondary with two phases and
\* the primary's value alone with one phase, the placeholder in the
\* secondary slot adding exactly zero.
C12_Sums ==
    \A d \in ElectrodeDomains :
        LET dn   == DomNode(d)
            prim == PhaseNode(d, "primary")
            sec  == PhaseNode(d, "secondary")
            As   == IF electrode_types(options, d) = "porous"
                    THEN {"n_Li_init", "cap_init"} ELSE {"n_Li_init"}
        IN /\ perr.line \notin {281, 284, 290}
           /\ dn \in done =>
                \A a \in As :
                    /\ a \in attrs[dn]
                    /\ val[a][prim] = RealPhase(d, prim, a)
                    /\ kind[sec] = "Particle" =>
                         /\ val[a][sec] = RealPhase(d, sec, a)
                         /\ val[a][dn] = val[a][prim] + val[a][sec]
                    /\ kind[sec] = "Null" =>
                         /\ val[a][dn] = val[a][prim]

\* A full cell is built whose negative electrode has two phases with
\* different non-zero inventories and whose positive electrode has one.
C12_Witness ==
    /\ ppc = "built"
    /\ options.phases["negative"] = 2
    /\ options.phases["positive"] = 1
    /\ val.n_Li_init["n.prim"] > val.n_Li_init["n.sec"]
    /\ val.n_Li_init["n.sec"] > 0
    /\ val.n_Li_init["n"] = val.n_Li_init["n.prim"] + val.n_Li_init["n.sec"]
    /\ val.cap_init["p"] = val.cap_init["p.prim"]
    /\ val.cap_init["p"] > 0

PlanarDomains == {d \in ElectrodeDomains : electrode_types(options, d) = "planar"}

\* C13 (as stated): when an electrode is planar (a half-cell), each of its
\* phases short-circuits with zero lithium inventory and zero initial
\* open-circuit potential, so that the domain's n_Li_init, the top-level
\* n_Li_particles_init and ocv_init = p.prim.U_init - n.prim.U_init are
\* computed from zeros and construction completes.
C13_Orig ==
    (PlanarDomains # {} /\ ppc \in {"built", "failed"}) =>
        /\ ppc = "built"
        /\ perr = NoErr
        /\ \A d \in PlanarDomains :
             /\ val.n_Li_init[PhaseNode(d, "primary")] = 0
             /\ "U_init" \in attrs[PhaseNode(d, "primary")]
             /\ val.U_init[PhaseNode(d, "primary")] = Scalar(0)
             /\ val.n_Li_init[DomNode(d)] = 0
        /\ {"n_Li_particles_init", "ocv_init"} \subseteq attrs["top"]

\* C14: for every stoichiometry passed to U (below 0, 0, between, 1, above
\* 1), the stoichiometry handed to the OCP function parameter lies in
\* [tol, 1 - tol]: it is tol for an input at or below tol, 1 - tol for an
\* input at or above 1 - tol, and the input itself in between.  The same
\* holds of the call made by line 506 during construction.
C14_Clamped ==
    /\ ucall.op = "call" =>
         /\ ucall.ret.ocp_sto \in 1..(StoOne - 1)
         /\ ucall.sto <= 1 => ucall.ret.ocp_sto = 1
         /\ ucall.sto >= StoOne - 1 => ucall.ret.ocp_sto = StoOne - 1
         /\ ucall.sto \in 1..(StoOne - 1) => ucall.ret.ocp_sto = ucall.sto
    /\ \A me \in ElectrodeSlots :
         "U_init" \in attrs[me] => val.U_init[me].ocp_sto \in 1..(StoOne - 1)

\* U has been called with a stoichiometry above 1 and has handed 1 - tol
\* to the OCP function.
C14_Witness ==
    /\ ucall.op = "call"
    /\ ucall.sto > StoOne
    /\ ucall.ret.ocp_sto = StoOne - 1

\* U has been called with a negative stoichiometry and with the
\* stoichiometries 0 and 1 exactly.
C14_WitnessBelow == ucall.op = "call" /\ ucall.sto < 0 /\ ucall.ret.ocp_sto = 1
C14_WitnessZero  == ucall.op = "call" /\ ucall.sto = 0 /\ ucall.ret.ocp_sto = 1
C14_WitnessOne   == ucall.op = "call" /\ ucall.sto = StoOne

\* The correction term 1 / sto + 1 / (sto - 1) of an expression U returned
\* is not finite.
Diverges(e) == e.corr[2] = 0

\* C15 (as stated): at stoichiometry exactly 0 and exactly 1 the potential
\* U returns diverges through the term 1e-6 * (1/sto + 1/(sto - 1)).
C15_Orig ==
    (ucall.op = "call" /\ ucall.sto \in {0, StoOne}) => Diverges(ucall.ret)

AllDomains == {"negative", "separator", "positive"}

RealPhases(d) ==
    Cardinality({j \in 1..2 : kind[PhaseNode(d, PhaseOrder[j])] = "Particle"})

\* The number of phases the options select for a domain; the separator
\* has no "particle phases" option and no phases.
SelectedPhases(d) == IF d = "separator" THEN 0 ELSE options.phases[d]

\* C16 (as stated): for every domain the number of real phase nodes is the
\* number its "particle phases" option selects (0, 1 or 2); both slots
\* always exist and every slot without a real phase holds a NullParameters
\* placeholder, so a domain with zero phases has placeholders in both.
C16_Orig ==
    ppc # "new" =>
        \A d \in AllDomains :
            /\ \A j \in 1..2 :
                 kind[PhaseNode(d, PhaseOrder[j])] \in {"Particle", "Null"}
            /\ RealPhases(d) = SelectedPhases(d)

\* C16 (amended): both phase slots of every domain always exist and each
\* holds either a real phase or a NullParameters placeholder.  In an
\* electrode domain the primary slot always holds a real phase, whatever
\* the "particle phases" option (also when it is 0), and the secondary
\* slot holds a real phase exactly when the option is 2 or more; the
\* separator, which has no such option, holds placeholders in both slots.
C16_Amended ==
    ppc # "new" =>
        /\ \A d \in AllDomains : \A j \in 1..2 :
             kind[PhaseNode(d, PhaseOrder[j])] \in {"Particle", "Null"}
        /\ \A d \in ElectrodeDomains :
             /\ kind[PhaseNode(d, "primary")] = "Particle"
             /\ kind[PhaseNode(d, "secondary")] = "Particle"
                <=> options.phases[d] >= 2
        /\ RealPhases("separator") = 0

\* The hierarchy is constructed for a negative electrode with option 0
\* and a positive electrode with option 2.
C16_Witness ==
    /\ ppc = "constructed"
    /\ options.phases["negative"] = 0
    /\ options.phases["positive"] = 2
    /\ RealPhases("negative") = 1
    /\ RealPhases("positive") = 2
    /\ kind["s.prim"] = "Null"
    /\ kind["s.sec"] = "Null"

\* What C17 says of one step of the lifecycle: a callable handed a pool
\* holding the keys it reads returns its new entries without touching the
\* pool, and set_rhs and set_initial_conditions leave each other's
\* mapping alone.
PureStep ==
    /\ (get_coupled_variables /\ ValidConfig /\ CoupledKeys \subseteq variables)
       => /\ variables' = variables
          /\ serr'.type = "none"
    /\ (set_rhs /\ ValidConfig /\ RhsKeys \subseteq variables)
       => /\ variables' = variables
          /\ initial_conditions' = initial_conditions
          /\ rhs' # {}
    /\ (set_initial_conditions /\ ValidConfig /\ ICKeys \subseteq variables)
       => /\ variables' = variables
          /\ rhs' = rhs
          /\ initial_conditions' # {}

\* C17 (as stated): every lifecycle callable is a pure function of its
\* inputs: get_coupled_variables, set_rhs and set_initial_conditions leave
\* the pool they are passed unchanged, their new entries appearing only in
\* the returned mapping or in the submodel's own rhs and
\* initial_conditions; set_rhs leaves initial_conditions unchanged and
\* set_initial_conditions leaves rhs unchanged.
C17_Orig == [][PureStep]_vars

KeySet(m) == {e.key : e \in m}

C18_WitnessPlain ==
    /\ epc = "built"
    /\ em.cls = "StefanMaxwell"
    /\ Cardinality(em.rhs) = 1

\* A constructor has raised between the two assignments.
C18_WitnessPartial ==
    /\ epc = "failed"
    /\ em.rhs # {}
    /\ em.initial_conditions = {}

\* The attributes of node on that a statement sequence reads.
AttrsOf(stmts, on) ==
    {r.n : r \in {rr \in UNION {{stmts[i].reads[j] : j \in 1..Len(stmts[i].reads)} :
                                  i \in 1..Len(stmts)} :
                     rr.k = "attr" /\ rr.on = on}}

\* What the four callables read from the phase parameter node.
PhaseAttrsRead ==
    AttrsOf(FundamentalStmts(reaction_loc, SEI, cracks), PP)
    \cup AttrsOf(CoupledStmts(reaction_loc, SEI, cracks, variables), PP)
    \cup AttrsOf(RhsStmts(reaction_loc, cracks), PP)
    \cup AttrsOf(InitialConditionStmts(reaction_loc, cracks), PP)

\* C19 (as stated): every attribute SEIGrowth reads from its phase
\* parameter node has been assigned on the negative-electrode phase node
\* by ParticleLithiumIonParameters._set_dimensional_parameters before the
\* lifecycle callables run, for every mechanism and cracks flag.
C19_Orig ==
    (spc # "none" /\ ValidConfig) =>
        /\ PhaseAttrsRead # {}
        /\ PhaseAttrsRead \subseteq attrs[PP]
        /\ serr.type # "AttributeError"
====
